---- MODULE Spec2Model ----
(***************************************************************************)
(* A model of src/app.py: a FastAPI application holding a module-level     *)
(* list `countries` of Country records, with the handlers get_countries,   *)
(* get_country and add_country.                                            *)
(*                                                                         *)
(* Spec      is the sequential server: one request is handled at a time.   *)
(* SpecConc  splits a create request in its two steps (the construction of *)
(*           the Country from the payload, the handler's append), which    *)
(*           may interleave with the steps of another create request.      *)
(***************************************************************************)
EXTENDS Integers, Sequences, FiniteSets

VARIABLES
    countries,   \* the module-level list `countries`
    created,     \* history: the records returned by add_country, in order
    last,        \* the last request handled and the response to it
    inflight     \* SpecConc: the create requests and how far each has got

vars == <<countries, created, last, inflight>>

---------------------------------------------------------------------------
(* Bounds of the model.                                                    *)

\* The number of create requests a behaviour of Spec makes.
MaxCreates == 3

\* Payloads carrying an "id" carry one of 1..MaxPayloadId.
MaxPayloadId == 4

\* The number of create requests a behaviour of SpecConc makes.
NumRequests == 2

---------------------------------------------------------------------------
(* Python's list and int semantics, as the handlers use them.              *)

Max(S) == CHOOSE m \in S : \A x \in S : x <= m

Last(s) == s[Len(s)]

IsPrefix(s, t) ==
    /\ Len(s) <= Len(t)
    /\ \A i \in 1..Len(s) : s[i] = t[i]

\* list[i] raises IndexError unless -len <= i < len.
PyInRange(s, i) == -Len(s) <= i /\ i < Len(s)

\* list[i] for an i in range: a negative i counts from the end.
PyIndex(s, i) == IF i >= 0 THEN s[i + 1] ELSE s[Len(s) + i + 1]

Digits == {"0", "1", "2", "3", "4", "5", "6", "7", "8", "9"}

DigitVal(c) ==
    CASE c = "0" -> 0 [] c = "1" -> 1 [] c = "2" -> 2 [] c = "3" -> 3
      [] c = "4" -> 4 [] c = "5" -> 5 [] c = "6" -> 6 [] c = "7" -> 7
      [] c = "8" -> 8 [] c = "9" -> 9

RECURSIVE DigitsValue(_)
DigitsValue(s) ==
    IF s = <<>> THEN 0
    ELSE 10 * DigitsValue(SubSeq(s, 1, Len(s) - 1)) + DigitVal(Last(s))

\* The digits of a path parameter: the parameter without its leading "-".
Unsigned(s) == IF s # <<>> /\ s[1] = "-" THEN Tail(s) ELSE s

\* int(s) raises ValueError unless s is an optional sign and then digits.
PyIntOk(s) ==
    /\ Unsigned(s) # <<>>
    /\ \A i \in 1..Len(Unsigned(s)) : Unsigned(s)[i] \in Digits

\* int(s) for a string (a sequence of characters) that int() accepts.
PyInt(s) ==
    IF s # <<>> /\ s[1] = "-" THEN 0 - DigitsValue(Unsigned(s))
    ELSE DigitsValue(Unsigned(s))

---------------------------------------------------------------------------
(* The Country model and the seed records.                                 *)

_find_next_id(cs) ==
    Max({cs[i].country_id : i \in DOMAIN cs}) + 1

\* Country(**payload): the field country_id is read from the payload's key
\* "id" (its alias) when the payload has that key, and is the value of the
\* default factory otherwise.
Country(cs, payload) ==
    [country_id |-> IF "id" \in DOMAIN payload THEN payload.id
                    ELSE _find_next_id(cs),
     name       |-> payload.name,
     capital    |-> payload.capital,
     area       |-> payload.area]

Seed ==
    << [country_id |-> 1, name |-> "Thailand", capital |-> "Bangkok",
        area |-> 513120],
       [country_id |-> 2, name |-> "Australia", capital |-> "Canberra",
        area |-> 7617930],
       [country_id |-> 3, name |-> "Egypt", capital |-> "Cairo",
        area |-> 1010408] >>

---------------------------------------------------------------------------
(* The requests the model makes.                                           *)

Germany == [name |-> "Germany", capital |-> "Berlin", area |-> 357022]

France == [name |-> "France", capital |-> "Paris", area |-> 551695]

WithId(p, n) ==
    [id |-> n, name |-> p.name, capital |-> p.capital, area |-> p.area]

\* The bodies of POST /countries: with and without the key "id".
Payloads ==
    {Germany, France} \cup {WithId(Germany, n) : n \in 1..MaxPayloadId}

\* The path parameters of GET /countries/{id}, as strings.
PathParams ==
    {<<d>> : d \in Digits}
        \cup {<<"-", d>> : d \in Digits \ {"0"}}
        \cup {<<"9", "9", "9">>, <<"0", "2">>, <<"-">>, <<"x">>, <<>>}

---------------------------------------------------------------------------
(* The handlers. A response is [status, error, body]: body is the list of  *)
(* the records returned (the whole list for get_countries, the one record  *)
(* for get_country and add_country, none when the handler raised).         *)

get_countries(cs) ==
    [status |-> 200, error |-> "none", body |-> cs]

\* get_country with the index taken to be the position itself.
get_country_no_decrement(cs, id) ==
    IF ~PyIntOk(id)
    THEN [status |-> 500, error |-> "ValueError", body |-> <<>>]
    ELSE IF ~PyInRange(cs, PyInt(id))
    THEN [status |-> 500, error |-> "IndexError", body |-> <<>>]
    ELSE [status |-> 200, error |-> "none",
          body |-> <<PyIndex(cs, PyInt(id))>>]

get_country(cs, id) ==
    IF ~PyIntOk(id)
    THEN [status |-> 500, error |-> "ValueError", body |-> <<>>]
    ELSE IF ~PyInRange(cs, PyInt(id) - 1)
    THEN [status |-> 500, error |-> "IndexError", body |-> <<>>]
    ELSE [status |-> 200, error |-> "none",
          body |-> <<PyIndex(cs, PyInt(id) - 1)>>]

\* add_country inserting at the head of the list.
add_country_front(cs, country) == <<country>> \o cs

\* add_country overwriting the last record of the list.
add_country_overwrite(cs, country) ==
    [cs EXCEPT ![Len(cs)] = country]

\* add_country assigning the id itself, from the list as it is now.
add_country_assign_id(cs, country) ==
    Append(cs, [country EXCEPT !.country_id = _find_next_id(cs)])

\* The list after add_country(country).
add_country(cs, country) == Append(cs, country)

add_country_response(country) ==
    [status |-> 201, error |-> "none", body |-> <<country>>]

Request(op, arg, payload, response) ==
    [op |-> op, arg |-> arg, payload |-> payload, response |-> response]

NoRequest == Request("none", <<>>, <<>>, get_countries(<<>>))

---------------------------------------------------------------------------
(* The sequential server.                                                  *)

Idle == [r \in 1..NumRequests |-> [pc |-> "idle", payload |-> <<>>,
                                   country |-> <<>>]]

Init ==
    /\ countries = Seed
    /\ created = <<>>
    /\ last = NoRequest
    /\ inflight = Idle

GetCountries ==
    /\ last' = Request("list", <<>>, <<>>, get_countries(countries))
    /\ UNCHANGED <<countries, created, inflight>>

\* get_country taking the record out of the list (countries.pop(id)).
GetCountry_pop(id) ==
    /\ last' = Request("get", id, <<>>, get_country(countries, id))
    /\ countries' =
          IF ~PyIntOk(id) \/ ~PyInRange(countries, PyInt(id) - 1)
          THEN countries
          ELSE LET k == IF PyInt(id) >= 1 THEN PyInt(id)
                        ELSE Len(countries) + PyInt(id)
               IN  SubSeq(countries, 1, k - 1)
                       \o SubSeq(countries, k + 1, Len(countries))
    /\ UNCHANGED <<created, inflight>>

GetCountry(id) ==
    /\ last' = Request("get", id, <<>>, get_country(countries, id))
    /\ UNCHANGED <<countries, created, inflight>>

AddCountry(payload) ==
    /\ Len(created) < MaxCreates
    /\ LET country == Country(countries, payload)
       IN  /\ countries' = add_country(countries, country)
           /\ created' = Append(created, country)
           /\ last' = Request("create", <<>>, payload,
                              add_country_response(country))
    /\ UNCHANGED inflight

Next ==
    \/ GetCountries
    \/ \E id \in PathParams : GetCountry(id)
    \/ \E payload \in Payloads : AddCountry(payload)

Spec == Init /\ [][Next]_vars

---------------------------------------------------------------------------
(* The server with create requests in flight together. The framework       *)
(* builds the Country from the request body (running the default factory   *)
(* of country_id when the body has no "id") before it calls the handler,   *)
(* and the handler appends: two steps of one request, between which a step *)
(* of another request may fall.                                            *)

\* Request r is parsed: Country(**payload) is constructed.
Validate(r, payload) ==
    /\ inflight[r].pc = "idle"
    /\ inflight' = [inflight EXCEPT ![r] =
                        [pc |-> "validated", payload |-> payload,
                         country |-> <<Country(countries, payload)>>]]
    /\ UNCHANGED <<countries, created, last>>

\* The handler add_country runs for request r.
Handle(r) ==
    /\ inflight[r].pc = "validated"
    /\ LET country == inflight[r].country[1]
       IN  /\ countries' = add_country(countries, country)
           /\ created' = Append(created, country)
           /\ last' = Request("create", <<>>, inflight[r].payload,
                              add_country_response(country))
    /\ inflight' = [inflight EXCEPT ![r].pc = "done"]

NextConc ==
    \/ \E r \in 1..NumRequests : \E payload \in Payloads : Validate(r, payload)
    \/ \E r \in 1..NumRequests : Handle(r)

SpecConc == Init /\ [][NextConc]_vars

---------------------------------------------------------------------------
(* Properties.                                                             *)

\* The position a get-by-position request asked for is an integer.
AskedPosition == last.op = "get" /\ PyIntOk(last.arg)

Position == PyInt(last.arg)

\* Two distinct places of the list hold the id n.
Duplicated(cs, n) ==
    \E i, j \in DOMAIN cs :
        i # j /\ cs[i].country_id = n /\ cs[j].country_id = n

\* C1: under sequential access no two records of the collection have the
\* same id, whatever payloads the create endpoint accepted.
C1_UniqueIds ==
    \A i, j \in DOMAIN countries :
        i # j => countries[i].country_id # countries[j].country_id

\* C2: every create appends a record whose id is one more than the maximum
\* id present just before the create, and returns it with status 201.
C2_NextIdIsMaxPlusOne ==
    [][Len(countries') = Len(countries) + 1 =>
          /\ Last(countries').country_id = _find_next_id(countries)
          /\ last'.response = add_country_response(Last(countries'))]_vars

\* C3: a create whose payload carries an id stores and returns a record
\* with the auto-assigned id (max of the current ids plus 1), not the
\* caller's value.
C3_CallerIdIgnored ==
    [][(/\ Len(countries') = Len(countries) + 1
        /\ last'.op = "create"
        /\ "id" \in DOMAIN last'.payload) =>
          /\ Last(countries').country_id = _find_next_id(countries)
          /\ last'.response.body[1].country_id = _find_next_id(countries)]_vars

\* C4: a listing after N creates returns N+3 records: the three seed
\* records first, then the created records in the order of their creates.
C4_ListInInsertionOrder ==
    last.op = "list" =>
        /\ last.response.status = 200
        /\ last.response.body = Seed \o created
        /\ Len(last.response.body) = Len(created) + 3

C4_Witness ==
    /\ last.op = "list"
    /\ Len(created) >= 2
    /\ created[1] # created[2]

\* C5: get-by-position fails with an out-of-range error for every integer
\* position below 1 or above the size of the collection.
C5_OutOfRangeFails ==
    (AskedPosition /\ (Position < 1 \/ Position > Len(countries))) =>
        /\ last.response.error = "IndexError"
        /\ last.response.body = <<>>

\* C6: get-by-position k with 1 <= k <= size succeeds with the k-th record
\* in insertion order; position 1 is always the Thailand seed record.
C6_GetReturnsKth ==
    (AskedPosition /\ 1 <= Position /\ Position <= Len(countries)) =>
        /\ last.response.status = 200
        /\ last.response.error = "none"
        /\ last.response.body = <<countries[Position]>>
        /\ Position = 1 => last.response.body = <<Seed[1]>>

C6_Witness ==
    /\ AskedPosition
    /\ Len(created) >= 1
    /\ Position = Len(countries)
    /\ last.response.body = <<Last(created)>>

\* C7: across every step the collection before the step is a prefix of the
\* collection after it: no record is updated, moved or deleted.
C7_AppendOnly == [][IsPrefix(countries, countries')]_vars

C7_Witness ==
    /\ Len(countries) = Len(Seed) + 2
    /\ IsPrefix(Seed, countries)

\* C8: list-all and get-by-position, failing or not, leave the collection
\* unchanged, and a list-all right after a list-all returns the same.
C8_ReadsLeaveCollection ==
    [][last'.op \in {"list", "get"} =>
          /\ countries' = countries
          /\ (last.op = "list" /\ last'.op = "list") =>
                 last'.response = last.response]_vars

C8_Witness ==
    /\ last.op = "get"
    /\ last.response.error = "IndexError"
    /\ Len(created) >= 1

Computed(r) ==
    /\ inflight[r].pc # "idle"
    /\ "id" \notin DOMAIN inflight[r].payload

\* C9: when two create requests in flight together computed the same next
\* id and both handlers have appended, the collection holds two records
\* with that id.
C9_SameNextIdDuplicates ==
    \A r1, r2 \in 1..NumRequests :
        (/\ r1 # r2
         /\ Computed(r1) /\ Computed(r2)
         /\ inflight[r1].pc = "done" /\ inflight[r2].pc = "done"
         /\ inflight[r1].country[1].country_id
                = inflight[r2].country[1].country_id) =>
            Duplicated(countries, inflight[r1].country[1].country_id)

C9_Witness ==
    \E r1, r2 \in 1..NumRequests :
        /\ r1 # r2
        /\ Computed(r1) /\ Computed(r2)
        /\ inflight[r1].pc = "done" /\ inflight[r2].pc = "done"
        /\ inflight[r1].country[1].country_id = Len(Seed) + 1
        /\ inflight[r2].country[1].country_id = Len(Seed) + 1
        /\ Duplicated(countries, Len(Seed) + 1)

\* C10: the record returned by get-by-position k, for k from 1 to the size
\* of the collection, has its id equal to k.
C10_PositionIsId ==
    (AskedPosition /\ 1 <= Position /\ Position <= Len(countries)
        /\ last.response.error = "none") =>
        last.response.body[1].country_id = Position

====
